---------------------------- MODULE Spec2Model ----------------------------
(***************************************************************************)
(* scrapy-object-cache: the spider middleware (Write Path), the downloader *)
(* middleware (Read Path and replay handler), the key derivation and the   *)
(* Mokeskin store client, as a state machine.                              *)
(*                                                                         *)
(* Python values: an optional value (None or v) is None / Some(v); an      *)
(* object carries its class in the field cls; a dict is a TLA+ function    *)
(* whose DOMAIN is the set of its keys, so that a missing key is a         *)
(* KeyError and not a default.  Strings are Python 2 byte strings, the     *)
(* interpreter hashlib.md5(spider.name) at middlewares.py:45 is written    *)
(* for.                                                                    *)
(***************************************************************************)
EXTENDS Integers, Sequences, FiniteSets, TLC

VARIABLES
    spider,     \* the running spider (the task owner): its name and attributes
    mk_ttl,     \* MokeskinAPI.ttl, the client default TTL (None or Some(n))
    store,      \* the remote store: key -> [data, exp] for the keys it holds
    phase,      \* where the dispatched request is in the pipeline
    request,    \* the request being processed (a placeholder after a HIT)
    original,   \* the request as it was dispatched by the scheduler
    result,     \* the callback's output stream: [items, exc]
    returned,   \* what process_spider_output returned to the pipeline
    escaped,    \* the exception that left the cache component ("none" if none)
    calls,      \* the store calls of this dispatch, in order
    executed,   \* TRUE once the real task was downloaded and its callback ran
    substitutions, \* how many placeholders replaced the request of this dispatch
    derived,    \* the last key get_spider_request_key returned
    client,     \* one call of MokeskinAPI on its own: [op, resp, done, out]
    writers     \* two spider middlewares sharing the store: what each has done

vars == <<spider, mk_ttl, store, phase, request, original, result, returned,
          escaped, calls, executed, substitutions, derived, client, writers>>

\* the variables only the specifications of one component use
aside == <<client, writers>>

-----------------------------------------------------------------------------
(* Python values *)

None == [some |-> FALSE]

Some(v) == [some |-> TRUE, val |-> v]

\* bool(x) for an optional boolean: None and False are falsy
Truthy(o) == o.some /\ o.val

\* d.get(k) for a dict d
DictGet(d, k) == IF k \in DOMAIN d THEN Some(d[k]) ELSE None

\* an attribute of the spider: a plain value, or a method returning ret
Plain(v) == [callable |-> FALSE, ret |-> v]

Method(r) == [callable |-> TRUE, ret |-> r]

\* a number of seconds as Python holds it: the int n, or the str of its
\* decimal digits (a setting given on the command line is a str)
PyInt(n) == [cls |-> "int", n |-> n]

PyStr(n) == [cls |-> "str", n |-> n]

\* int(x) for an int or a str of decimal digits
int(x) == PyInt(x.n)

\* bool(x) for an int or a str of decimal digits: 0 is falsy, no such str is
PyTruthy(x) == x.cls = "str" \/ x.n # 0

-----------------------------------------------------------------------------
(* Bounds and input domains *)

\* the longest output stream a callback yields
MaxBatch == 2

\* the most placeholders that replace one dispatched request
MaxChain == 2

\* middlewares.py:22: 60 * 60 * 6
MOKESKIN_TTL == 21600

SpiderNames == {"books", "shop"}

\* hashlib.md5(name).hexdigest()
Md5Hex(name) ==
    CASE name = "books" -> "7d8949bcbf85067fceda9f84a6affb6b"
      [] name = "shop"  -> "fb54f3c5992b96d001bb16e8e92d968d"

Urls == {"http://example.com/1", "http://example.com/2"}

DummyUrl == "file:///etc/hosts"

\* scrapy.utils.request.request_fingerprint: sha1 over method, url and body
request_fingerprint(req) ==
    CASE req.url = "http://example.com/1" -> "9c903c346b037ac3204143904d7f28deb5b20233"
      [] req.url = "http://example.com/2" -> "f5c4cb8540782f1020462d6587cb102e7f4176b9"
      [] req.url = DummyUrl -> "86d4475d5362f82af655209eebd6df24f4214025"

\* what a key-override attribute of the spider can be: left out, a callable
\* returning None, an empty string or a key, or an attribute that is not
\* callable
HookOptions(tag) ==
    { None, Some(Method(None)), Some(Method(Some(""))), Some(Method(Some(tag))),
      Some(Plain(Some(tag))) }

\* the spider-level flag: left out, True or False
FlagOptions == { None, Some(Plain(TRUE)), Some(Plain(FALSE)) }

\* the spider's methods a callback name can resolve to
SpiderMethods == {"parse", "parse_item"}

\* the attributes of a spider with these optional attributes
SpiderAttrs(legacy, current, flag) ==
    LET opt == [n \in {"httpcache_get_request_key", "get_request_key",
                       "cache_object_enabled"} |->
                  CASE n = "httpcache_get_request_key" -> legacy
                    [] n = "get_request_key" -> current
                    [] n = "cache_object_enabled" -> flag]
        D == { n \in DOMAIN opt : opt[n].some }
    IN  [n \in D \cup SpiderMethods |->
           IF n \in D THEN opt[n].val ELSE Method(None)]

\* the spiders of the key derivation: every combination of the two hooks
KeySpiders ==
    { [name |-> n, attrs |-> SpiderAttrs(l, c, None)] :
        n \in SpiderNames,
        l \in HookOptions("legacy-key"),
        c \in HookOptions("current-key") }

\* the spiders of the pipeline: every spider-level flag, without a hook and
\* with a hook that returns a key
PipelineSpiders ==
    { [name |-> "books", attrs |-> SpiderAttrs(None, c, f)] :
        c \in { None, Some(Method(Some("current-key"))) },
        f \in FlagOptions }

\* a request of the scheduler: the fields Request carries
NewRequest(url, meta, callback, errback) ==
    [cls |-> "Request", url |-> url, method |-> "GET", body |-> "",
     headers |-> <<>>, meta |-> meta, dont_filter |-> FALSE, cookies |-> <<>>,
     callback |-> callback, errback |-> errback]

\* request.meta of a dispatched request: the per-request flag, set or left out
Metas ==
    UNION { [D -> BOOLEAN] : D \in SUBSET {"cache_object_enabled"} }

Requests == { NewRequest(u, m, Some("parse"), None) : u \in Urls, m \in Metas }

-----------------------------------------------------------------------------
(* middlewares.py: module functions *)

hasattr(obj, name) == name \in DOMAIN obj.attrs

\* check_if_is_enabled falling back to the spider's flag whenever the
\* request's flag is not true (is_enabled or getattr(...))
check_if_is_enabled_or_default(req, sp) ==
    LET is_enabled == DictGet(req.meta, "cache_object_enabled")
    IN  IF ~Truthy(is_enabled)
        THEN IF hasattr(sp, "cache_object_enabled")
             THEN sp.attrs["cache_object_enabled"].ret
             ELSE FALSE
        ELSE is_enabled.val

\* middlewares.py:25-29
check_if_is_enabled(req, sp) ==
    LET is_enabled == DictGet(req.meta, "cache_object_enabled")
    IN  IF ~is_enabled.some
        THEN IF hasattr(sp, "cache_object_enabled")
             THEN sp.attrs["cache_object_enabled"].ret
             ELSE FALSE
        ELSE is_enabled.val

\* the hook lookup stopping at the first callable hook it finds
request_key_callback_first_found(sp) ==
    LET second == IF hasattr(sp, "get_request_key")
                     /\ sp.attrs["get_request_key"].callable
                  THEN Some("get_request_key")
                  ELSE None
    IN  IF hasattr(sp, "httpcache_get_request_key")
           /\ sp.attrs["httpcache_get_request_key"].callable
        THEN Some("httpcache_get_request_key")
        ELSE second

\* middlewares.py:34-40: the hook that is called, None if the spider has none.
\* Both attributes are probed, in this order, and each callable one is
\* assigned to the same variable.
request_key_callback(sp) ==
    LET first == IF hasattr(sp, "httpcache_get_request_key")
                    /\ sp.attrs["httpcache_get_request_key"].callable
                 THEN Some("httpcache_get_request_key")
                 ELSE None
    IN  IF hasattr(sp, "get_request_key") /\ sp.attrs["get_request_key"].callable
        THEN Some("get_request_key")
        ELSE first

\* '{}:{}'.format(spider_key, request_key)
FormatKey(spider_key, request_key) == spider_key \o ":" \o request_key

\* the hook's return value tested for truth (if key:) instead of for None
request_key_of_if_truthy(sp, req) ==
    LET cb == request_key_callback(sp)
        key == IF cb.some THEN sp.attrs[cb.val].ret ELSE None
    IN  IF key.some /\ key.val # "" THEN key.val ELSE request_fingerprint(req)

\* middlewares.py:41-44: the hook's return value replaces the fingerprint
\* unless it is None
request_key_of(sp, req) ==
    LET cb == request_key_callback(sp)
        key == IF cb.some THEN sp.attrs[cb.val].ret ELSE None
    IN  IF key.some THEN key.val ELSE request_fingerprint(req)

\* middlewares.py:32-46
get_spider_request_key(sp, req) ==
    FormatKey(Md5Hex(sp.name), request_key_of(sp, req))

-----------------------------------------------------------------------------
(* Outcomes of a call: a return value or a raised exception *)

Return(v) == [raised |-> "none", value |-> v]

Raise(e) == [raised |-> e, value |-> None]

-----------------------------------------------------------------------------
(* The remote store, seen through requests.get / requests.post *)

\* an HTTP response; a failed transport raises inside requests instead
HttpResponse(status, json) == [failed |-> FALSE, status_code |-> status, json |-> json]

TransportFailure == [failed |-> TRUE, status_code |-> 0, json |-> None]

\* what any call can meet: a server error, or no response at all
Faults == { HttpResponse(500, None), TransportFailure }

\* GET {host}/exists/{key}
StoreExists(key) ==
    { HttpResponse(IF key \in DOMAIN store THEN 200 ELSE 404, None) } \cup Faults

\* GET {host}/items/{key}: 200 with {"data": {"data": payload}}, or 404
StoreGet(key) ==
    { IF key \in DOMAIN store
      THEN HttpResponse(200, Some([data |-> [data |-> store[key].data]]))
      ELSE HttpResponse(404, None) } \cup Faults

\* POST {host}/items: 201 and the entry is held (whether an entry already
\* held under the key is replaced is the store's choice), or a fault and
\* nothing is written
StorePost(full_data) ==
    LET key == full_data["key"]
        entry == [data |-> full_data["data"], exp |-> DictGet(full_data, "exp")]
        written == [k \in DOMAIN store \cup {key} |->
                      IF k = key THEN entry ELSE store[k]]
    IN  { [resp |-> HttpResponse(201, None), store |-> written] }
        \cup (IF key \in DOMAIN store
              THEN { [resp |-> HttpResponse(201, None), store |-> store] }
              ELSE {})
        \cup { [resp |-> f, store |-> store] : f \in Faults }

-----------------------------------------------------------------------------
(* mokeskin.py: MokeskinAPI *)

\* mokeskin.py:35-44
MokeskinGet(resp) ==
    IF resp.failed THEN Raise("ConnectionError")
    ELSE IF resp.status_code = 404 THEN Return(None)
    ELSE IF resp.status_code # 200 THEN Raise("MokeskinAPIError")
    ELSE Return(Some(resp.json.val["data"]["data"]))

\* the body of a post with `if ttl:` for `if ttl is not None:`
MokeskinPostBody_if_truthy(key, data, ttl, self_ttl) ==
    LET full_data == [k \in {"key", "data"} |-> IF k = "key" THEN key ELSE data]
    IN  IF ttl.some /\ PyTruthy(ttl.val) THEN full_data @@ ("exp" :> int(ttl.val))
        ELSE IF self_ttl.some /\ PyTruthy(self_ttl.val)
        THEN full_data @@ ("exp" :> int(self_ttl.val))
        ELSE full_data

\* mokeskin.py:48-54: the JSON body of a post
MokeskinPostBody(key, data, ttl, self_ttl) ==
    LET full_data == [k \in {"key", "data"} |-> IF k = "key" THEN key ELSE data]
    IN  IF ttl.some THEN full_data @@ ("exp" :> int(ttl.val))
        ELSE IF self_ttl.some THEN full_data @@ ("exp" :> int(self_ttl.val))
        ELSE full_data

\* post taking every 2xx status for success
MokeskinPost_any_2xx(resp) ==
    IF resp.failed THEN Raise("ConnectionError")
    ELSE IF resp.status_code \notin 200..299 THEN Raise("MokeskinAPIError")
    ELSE Return(None)

\* mokeskin.py:55-59
MokeskinPost(resp) ==
    IF resp.failed THEN Raise("ConnectionError")
    ELSE IF resp.status_code # 201 THEN Raise("MokeskinAPIError")
    ELSE Return(None)

\* exists taking 404 for the only answer there is
MokeskinExists_never_found(resp) ==
    IF resp.failed THEN Raise("ConnectionError")
    ELSE IF resp.status_code \in {200, 404} THEN Return(Some(FALSE))
    ELSE Raise("MokeskinAPIError")

\* mokeskin.py:61-70
MokeskinExists(resp) ==
    IF resp.failed THEN Raise("ConnectionError")
    ELSE IF resp.status_code = 404 THEN Return(Some(FALSE))
    ELSE IF resp.status_code # 200 THEN Raise("MokeskinAPIError")
    ELSE Return(Some(TRUE))

\* the record of one store call in calls: the handler that made it, the
\* request it was made for, the JSON sent (post) or received (get), and how
\* the store answered
Call(by, op, key, task, json, resp) ==
    [by |-> by, op |-> op, key |-> key, task |-> task, json |-> json,
     failed |-> resp.failed, status_code |-> resp.status_code]

-----------------------------------------------------------------------------
(* What a callback yields *)

\* a follow-up request whose callback is a method of the spider and whose
\* errback is a function the spider does not have
ReqA ==
    [NewRequest("http://example.com/next", <<>>, Some("parse_item"), Some("on_error"))
       EXCEPT !.body = "q=1"]

ItemA == [cls |-> "Item", fields |-> [title |-> "x"]]

DictA == [cls |-> "dict", fields |-> [title |-> "x"]]

\* an object that is neither a Request, a dict nor an Item
StrA == [cls |-> "str", value |-> "junk"]

Objects == {ReqA, ItemA, DictA, StrA}

Batches == UNION { [1..n -> Objects] : n \in 0..MaxBatch }

\* isinstance(obj, classinfo): classinfo is a class or a tuple of classes;
\* anything else (a list) is a TypeError
isinstance(obj, classinfo) ==
    IF classinfo.kind \in {"class", "tuple"}
    THEN Return(obj.cls \in classinfo.classes)
    ELSE Raise("TypeError")

-----------------------------------------------------------------------------
(* middlewares.py: ScrapyObjectSpiderMiddleware *)

\* middlewares.py:76-77
get_request_ttl(req) == DictGet(req.meta, "MOKESKIN_TTL")

\* middlewares.py:95-109
serialize_request(req) ==
    LET request_dt == [url |-> req.url, method |-> req.method, body |-> req.body,
                       headers |-> req.headers, meta |-> req.meta,
                       dont_filter |-> req.dont_filter, cookies |-> req.cookies]
        with_cb == IF req.callback.some
                   THEN request_dt @@ ("callback" :> req.callback.val)
                   ELSE request_dt
    IN  IF req.errback.some
        THEN with_cb @@ ("errback" :> req.errback.val)
        ELSE with_cb

\* middlewares.py:111-112
serialize_item(item) == item.fields

\* middlewares.py:181-192: one turn of the loop; value is the element to
\* append, None for an object that is skipped
encode_object(obj) ==
    IF isinstance(obj, [kind |-> "class", classes |-> {"Request"}]).value
    THEN Return(Some([_type |-> "request", _data |-> serialize_request(obj)]))
    ELSE LET is_item == isinstance(obj, [kind |-> "list", classes |-> {"dict", "Item"}])
         IN  IF is_item.raised # "none" THEN Raise(is_item.raised)
             ELSE IF is_item.value
             THEN Return(Some([_type |-> "item", _data |-> serialize_item(obj)]))
             ELSE Return(None)

\* middlewares.py:179-192: the loop over the materialized result
RECURSIVE encode_outputs(_, _)
encode_outputs(objs, data) ==
    IF objs = <<>> THEN Return(data)
    ELSE LET e == encode_object(Head(objs))
         IN  IF e.raised # "none" THEN Raise(e.raised)
             ELSE encode_outputs(Tail(objs),
                                 IF e.value.some THEN Append(data, e.value.val) ELSE data)

\* middlewares.py:164-169 and 296-301: exists_data catches the client's error
exists_data(r) == IF r.raised = "MokeskinAPIError" THEN Return(None) ELSE r

\* middlewares.py:147-152: post_data catches the client's error
post_data(r) == IF r.raised = "MokeskinAPIError" THEN Return(None) ELSE r

\* the Write Path without its existence guard: it always encodes and posts
must_store_always(key_exists) == TRUE

\* middlewares.py:178: whether the Write Path goes on to encode and post
must_store(key_exists) == ~Truthy(key_exists)

\* what a handler leaves behind
Outcome(ret, exc, log, st) == [returned |-> ret, escaped |-> exc, calls |-> log, store |-> st]

\* middlewares.py:179-194: encode and post
store_outputs(req, sp, objs, log) ==
    LET enc == encode_outputs(objs, <<>>)
        key == get_spider_request_key(sp, req)
    IN  IF enc.raised # "none"
        THEN { Outcome(None, enc.raised, log, store) }
        ELSE LET full_data == MokeskinPostBody(key, enc.value, get_request_ttl(req), mk_ttl)
             IN  { LET r == post_data(MokeskinPost(po.resp))
                       log2 == Append(log, Call("process_spider_output", "post", key,
                                                req, Some(full_data), po.resp))
                   IN  IF r.raised # "none"
                       THEN Outcome(None, r.raised, log2, po.store)
                       ELSE Outcome(Some(objs), "none", log2, po.store)
                   : po \in StorePost(full_data) }

\* middlewares.py:171-195: every outcome of process_spider_output for the
\* response of req and the callback's output stream res
process_spider_output(req, sp, res) ==
    IF ~check_if_is_enabled(req, sp)
    THEN { Outcome(Some(res.items), res.exc, calls, store) }
    ELSE IF res.exc # "none"
    THEN { Outcome(None, res.exc, calls, store) }
    ELSE LET key == get_spider_request_key(sp, req)
         IN  UNION {
               LET key_exists == exists_data(MokeskinExists(er))
                   log == Append(calls, Call("process_spider_output", "exists", key,
                                             req, None, er))
               IN  IF key_exists.raised # "none"
                   THEN { Outcome(None, key_exists.raised, log, store) }
                   ELSE IF must_store(key_exists.value)
                   THEN store_outputs(req, sp, res.items, log)
                   ELSE { Outcome(Some(res.items), "none", log, store) }
               : er \in StoreExists(key) }

-----------------------------------------------------------------------------
(* middlewares.py: ScrapyObjectDownloaderMiddleware *)

\* middlewares.py:212-216: the attributes __init__ sets
DownloaderMiddlewareAttrs == {"mk_api", "item_cls", "loader_cls", "loader_conf", "spider"}

ReplayHandler == "get_and_parse_mokeskin_cache"

\* middlewares.py:262-266 and 267-271: a continuation name is bound when it
\* names a callable attribute of the spider
resolve_continuation(data, which, sp) ==
    LET name == DictGet(data, which)
    IN  IF name.some /\ hasattr(sp, name.val) /\ sp.attrs[name.val].callable
        THEN name
        ELSE None

\* middlewares.py:254-272 (body.encode('utf-8') of a byte string of ASCII
\* characters is that string)
deserialize_request(data, sp) ==
    [cls |-> "Request", url |-> data["url"], method |-> data["method"],
     body |-> data["body"], headers |-> data["headers"], meta |-> data["meta"],
     dont_filter |-> data["dont_filter"], cookies |-> data["cookies"],
     callback |-> resolve_continuation(data, "callback", sp),
     errback |-> resolve_continuation(data, "errback", sp)]

\* middlewares.py:274-282: self.loader is read first, and __init__ set
\* loader_cls; with no converter configured every field loads unchanged
deserialize_item(data) ==
    IF "loader" \notin DownloaderMiddlewareAttrs
    THEN Raise("AttributeError")
    ELSE Return([cls |-> "Item", fields |-> data])

\* a placeholder the scheduler's duplicate filter may drop
dummy_request_filtered(mk_key) ==
    NewRequest(DummyUrl, [mk_key |-> mk_key, keep_session |-> TRUE],
               Some(ReplayHandler), None)

\* middlewares.py:284-289
dummy_request(mk_key) ==
    [NewRequest(DummyUrl, [mk_key |-> mk_key, keep_session |-> TRUE],
                Some(ReplayHandler), None)
       EXCEPT !.dont_filter = TRUE]

\* middlewares.py:308-313: get_data catches the client's error
get_data(r) == IF r.raised = "MokeskinAPIError" THEN Return(None) ELSE r

\* middlewares.py:319-327: one turn of the loop; value is the object to
\* yield, None when the element's type is neither 'request' nor 'item'
decode_object(mk_obj, sp) ==
    IF "_type" \notin DOMAIN mk_obj THEN Raise("KeyError")
    ELSE IF mk_obj["_type"] = "request"
    THEN IF "data" \notin DOMAIN mk_obj THEN Raise("KeyError")
         ELSE Return(Some(deserialize_request(mk_obj["data"], sp)))
    ELSE IF mk_obj["_type"] = "item"
    THEN IF "data" \notin DOMAIN mk_obj THEN Raise("KeyError")
         ELSE LET it == deserialize_item(mk_obj["data"])
              IN  IF it.raised # "none" THEN Raise(it.raised)
                  ELSE Return(Some(it.value))
    ELSE Return(None)

\* middlewares.py:318-327: the generator's loop: what it yields, and the
\* exception that ends it
RECURSIVE decode_outputs(_, _, _)
decode_outputs(data, sp, yielded) ==
    IF data = <<>> THEN [items |-> yielded, exc |-> "none"]
    ELSE LET d == decode_object(Head(data), sp)
         IN  IF d.raised # "none" THEN [items |-> yielded, exc |-> d.raised]
             ELSE decode_outputs(Tail(data), sp,
                                 IF d.value.some THEN Append(yielded, d.value.val)
                                 ELSE yielded)

\* middlewares.py:315-327: the replay handler on what get_data returned;
\* iterating None is a TypeError
get_and_parse_mokeskin_cache(got, sp) ==
    IF got.raised # "none" THEN [items |-> <<>>, exc |-> got.raised]
    ELSE IF ~got.value.some THEN [items |-> <<>>, exc |-> "TypeError"]
    ELSE decode_outputs(got.value.val, sp, <<>>)

\* middlewares.py:336: whether the request is replaced by the placeholder
is_hit(key_exists) == Truthy(key_exists)

-----------------------------------------------------------------------------
(* The pipeline *)

NoResult == [items |-> <<>>, exc |-> "none"]

\* no call of the client on its own
NoClient == [op |-> "none", resp |-> TransportFailure, done |-> FALSE, out |-> Return(None)]

\* no second middleware at work
NoWriters == <<>>

Init ==
    /\ spider \in PipelineSpiders
    /\ mk_ttl = Some(PyInt(MOKESKIN_TTL))
    /\ store = <<>>
    /\ phase = "idle"
    /\ request = None
    /\ original = None
    /\ result = NoResult
    /\ returned = None
    /\ escaped = "none"
    /\ calls = <<>>
    /\ executed = FALSE
    /\ substitutions = 0
    /\ derived = None
    /\ client = NoClient
    /\ writers = NoWriters

\* the scheduler hands a request to the downloader
Dispatch ==
    /\ phase \in {"idle", "done", "request_failed", "output_failed"}
    /\ \E req \in Requests :
         /\ request' = Some(req)
         /\ original' = Some(req)
    /\ phase' = "process_request"
    /\ result' = NoResult
    /\ returned' = None
    /\ escaped' = "none"
    /\ calls' = <<>>
    /\ executed' = FALSE
    /\ substitutions' = 0
    /\ UNCHANGED <<spider, mk_ttl, store, derived>>
    /\ UNCHANGED aside

\* middlewares.py:329-337: process_request; a returned request is
\* rescheduled and comes back here, None lets the download go on
ProcessRequest ==
    /\ phase = "process_request"
    /\ IF ~check_if_is_enabled(request.val, spider)
       THEN /\ phase' = "download"
            /\ UNCHANGED <<request, calls, escaped, substitutions>>
       ELSE LET mk_key == get_spider_request_key(spider, request.val)
            IN  \E er \in StoreExists(mk_key) :
                  LET key_exists == exists_data(MokeskinExists(er))
                  IN  /\ calls' = Append(calls, Call("process_request", "exists", mk_key,
                                                  request.val, None, er))
                      /\ IF key_exists.raised # "none"
                         THEN /\ escaped' = key_exists.raised
                              /\ phase' = "request_failed"
                              /\ UNCHANGED <<request, substitutions>>
                         ELSE IF is_hit(key_exists.value)
                         THEN /\ substitutions < MaxChain
                              /\ request' = Some(dummy_request(mk_key))
                              /\ substitutions' = substitutions + 1
                              /\ phase' = "process_request"
                              /\ UNCHANGED escaped
                         ELSE /\ phase' = "download"
                              /\ UNCHANGED <<request, escaped, substitutions>>
    /\ UNCHANGED <<spider, mk_ttl, store, original, result, returned, executed, derived>>
    /\ UNCHANGED aside

\* the request is downloaded and the spider's callback yields its outputs
Callback ==
    /\ phase = "download"
    /\ request.val.callback # Some(ReplayHandler)
    /\ \E objs \in Batches : result' = [items |-> objs, exc |-> "none"]
    /\ executed' = TRUE
    /\ phase' = "spider_output"
    /\ UNCHANGED <<spider, mk_ttl, store, request, original, returned, escaped,
                   calls, substitutions, derived>>
    /\ UNCHANGED aside

\* middlewares.py:315-327: the placeholder is downloaded and its callback,
\* the replay handler, runs
Replay ==
    /\ phase = "download"
    /\ request.val.callback = Some(ReplayHandler)
    /\ LET mk_key == request.val.meta["mk_key"]
       IN  \E gr \in StoreGet(mk_key) :
             /\ calls' = Append(calls, Call("replay", "get", mk_key, request.val, gr.json, gr))
             /\ result' = get_and_parse_mokeskin_cache(get_data(MokeskinGet(gr)), spider)
    /\ phase' = "spider_output"
    /\ UNCHANGED <<spider, mk_ttl, store, request, original, returned, escaped,
                   executed, substitutions, derived>>
    /\ UNCHANGED aside

\* middlewares.py:171-195: process_spider_output on the callback's outputs
ProcessSpiderOutput ==
    /\ phase = "spider_output"
    /\ \E o \in process_spider_output(request.val, spider, result) :
         /\ returned' = o.returned
         /\ escaped' = o.escaped
         /\ calls' = o.calls
         /\ store' = o.store
         /\ phase' = IF o.escaped = "none" THEN "done" ELSE "output_failed"
    /\ UNCHANGED <<spider, mk_ttl, request, original, result, executed,
                   substitutions, derived>>
    /\ UNCHANGED aside

\* the store drops an entry whose TTL has elapsed
Expire ==
    /\ \E key \in DOMAIN store :
         store' = [k \in DOMAIN store \ {key} |-> store[k]]
    /\ UNCHANGED <<spider, mk_ttl, phase, request, original, result, returned,
                   escaped, calls, executed, substitutions, derived>>
    /\ UNCHANGED aside

Next ==
    \/ Dispatch
    \/ ProcessRequest
    \/ Callback
    \/ Replay
    \/ ProcessSpiderOutput
    \/ Expire

Spec == Init /\ [][Next]_vars

-----------------------------------------------------------------------------
(* The key derivation on its own: every spider and request, one call *)

InitKey ==
    /\ spider \in KeySpiders
    /\ request \in { Some(req) : req \in Requests }
    /\ original = request
    /\ mk_ttl = Some(PyInt(MOKESKIN_TTL))
    /\ store = <<>>
    /\ phase = "idle"
    /\ result = NoResult
    /\ returned = None
    /\ escaped = "none"
    /\ calls = <<>>
    /\ executed = FALSE
    /\ substitutions = 0
    /\ derived = None
    /\ client = NoClient
    /\ writers = NoWriters

\* middlewares.py:32-46: one call of get_spider_request_key
DeriveKey ==
    /\ derived = None
    /\ derived' = Some(get_spider_request_key(spider, request.val))
    /\ UNCHANGED <<spider, mk_ttl, store, phase, request, original, result,
                   returned, escaped, calls, executed, substitutions>>
    /\ UNCHANGED aside

SpecKey == InitKey /\ [][DeriveKey]_vars

-----------------------------------------------------------------------------
(* The store client on its own: every status, one call *)

\* the statuses the store or anything in front of it can answer with
HttpStatuses == {200, 201, 202, 204, 301, 302, 400, 401, 403, 404, 409, 500, 502, 503}

\* the JSON bodies an answer can carry
JsonBodies ==
    { Some([data |-> [data |-> p]]) :
        p \in { <<>>, <<[_type |-> "request", _data |-> serialize_request(ReqA)]>> } }

ClientOps == {"exists", "get", "post"}

InitClient ==
    /\ spider \in { sp \in PipelineSpiders : DOMAIN sp.attrs = SpiderMethods }
    /\ mk_ttl = Some(PyInt(MOKESKIN_TTL))
    /\ store = <<>>
    /\ phase = "idle"
    /\ request = None
    /\ original = None
    /\ result = NoResult
    /\ returned = None
    /\ escaped = "none"
    /\ calls = <<>>
    /\ executed = FALSE
    /\ substitutions = 0
    /\ derived = None
    /\ client \in { [op |-> o, resp |-> r, done |-> FALSE, out |-> Return(None)] :
                      o \in ClientOps,
                      r \in { HttpResponse(st, j) : st \in HttpStatuses, j \in JsonBodies }
                            \cup { TransportFailure } }
    /\ writers = NoWriters

\* mokeskin.py:35-70: one call of get, post or exists on the answer resp
ClientCall ==
    /\ ~client.done
    /\ client' = [client EXCEPT
                    !.done = TRUE,
                    !.out = CASE client.op = "exists" -> MokeskinExists(client.resp)
                              [] client.op = "get" -> MokeskinGet(client.resp)
                              [] client.op = "post" -> MokeskinPost(client.resp)]
    /\ UNCHANGED <<spider, mk_ttl, store, phase, request, original, result,
                   returned, escaped, calls, executed, substitutions, derived,
                   writers>>

SpecClient == InitClient /\ [][ClientCall]_vars

-----------------------------------------------------------------------------
(* The Write Path on its own: every source of a TTL, one run *)

\* the values a TTL is given as: 0, a number of seconds, a str of digits
TtlValues == { PyInt(0), PyInt(60), PyStr(120) }

\* the client default: MOKESKIN_TTL of the settings, an int or a str, or None
ClientTtls == { None, Some(PyInt(MOKESKIN_TTL)), Some(PyStr(3600)) }

\* spiders with and without an attribute MOKESKIN_TTL of their own
TtlSpiders ==
    LET attrs == SpiderAttrs(None, None, None)
    IN  { [name |-> "books", attrs |-> attrs] }
        \cup { [name |-> "books", attrs |-> attrs @@ ("MOKESKIN_TTL" :> Plain(t))] :
                 t \in TtlValues }

\* enabled requests with and without MOKESKIN_TTL in their meta
TtlRequests ==
    { NewRequest(u, [cache_object_enabled |-> TRUE], Some("parse"), None) : u \in Urls }
    \cup { NewRequest(u, [cache_object_enabled |-> TRUE, MOKESKIN_TTL |-> t],
                      Some("parse"), None) : u \in Urls, t \in TtlValues }

\* the callback of an enabled request has just yielded its outputs
InitTTL ==
    /\ spider \in TtlSpiders
    /\ mk_ttl \in ClientTtls
    /\ store = <<>>
    /\ phase = "spider_output"
    /\ request \in { Some(req) : req \in TtlRequests }
    /\ original = request
    /\ result \in { [items |-> objs, exc |-> "none"] : objs \in { <<>>, <<ReqA>> } }
    /\ returned = None
    /\ escaped = "none"
    /\ calls = <<>>
    /\ executed = TRUE
    /\ substitutions = 0
    /\ derived = None
    /\ client = NoClient
    /\ writers = NoWriters

SpecTTL == InitTTL /\ [][ProcessSpiderOutput]_vars

-----------------------------------------------------------------------------
(* Two runs of the Write Path at once: the store is all they share *)

\* the two responses whose outputs are being processed
Writers == {"a", "b"}

\* enabled requests; the same request twice is the same key twice
RaceRequests ==
    { NewRequest(u, [cache_object_enabled |-> TRUE], Some("parse"), None) : u \in Urls }

\* what the callbacks yielded
RaceResults == { [items |-> objs, exc |-> "none"] : objs \in { <<>>, <<ReqA>>, <<ItemA>> } }

\* a run of process_spider_output about to start
NewWriter(req, res) ==
    [pc |-> "start", request |-> req, result |-> res, key_exists |-> None,
     checked_at |-> 0, posted_at |-> 0, returned |-> None, escaped |-> "none"]

InitRace ==
    /\ spider \in { sp \in PipelineSpiders : "cache_object_enabled" \notin DOMAIN sp.attrs }
    /\ mk_ttl = Some(PyInt(MOKESKIN_TTL))
    /\ store = <<>>
    /\ phase = "idle"
    /\ request = None
    /\ original = None
    /\ result = NoResult
    /\ returned = None
    /\ escaped = "none"
    /\ calls = <<>>
    /\ executed = FALSE
    /\ substitutions = 0
    /\ derived = None
    /\ client = NoClient
    /\ writers \in [Writers -> { NewWriter(req, res) : req \in RaceRequests,
                                                        res \in RaceResults }]

\* middlewares.py:172-178: process_spider_output up to the answer of its
\* existence check; the call blocks, and the other run goes on meanwhile
WriterCheck(w) ==
    LET me == writers[w]
    IN  /\ me.pc = "start"
        /\ IF ~check_if_is_enabled(me.request, spider)
           THEN /\ writers' = [writers EXCEPT ![w].pc = "done",
                                              ![w].returned = Some(me.result.items)]
                /\ UNCHANGED calls
           ELSE LET key == get_spider_request_key(spider, me.request)
                IN  \E er \in StoreExists(key) :
                      LET key_exists == exists_data(MokeskinExists(er))
                      IN  /\ calls' = Append(calls, Call("process_spider_output", "exists",
                                                          key, me.request, None, er))
                          /\ writers' =
                               [writers EXCEPT ![w] =
                                  IF key_exists.raised # "none"
                                  THEN [me EXCEPT !.pc = "failed",
                                                  !.checked_at = Len(calls) + 1,
                                                  !.escaped = key_exists.raised]
                                  ELSE IF must_store(key_exists.value)
                                  THEN [me EXCEPT !.pc = "checked",
                                                  !.checked_at = Len(calls) + 1,
                                                  !.key_exists = key_exists.value]
                                  ELSE [me EXCEPT !.pc = "done",
                                                  !.checked_at = Len(calls) + 1,
                                                  !.key_exists = key_exists.value,
                                                  !.returned = Some(me.result.items)]]
        /\ UNCHANGED <<spider, mk_ttl, store, phase, request, original, result,
                       returned, escaped, executed, substitutions, derived, client>>

\* middlewares.py:179-195: the rest of process_spider_output, once the
\* existence check has answered that the key is not there
WriterStore(w) ==
    LET me == writers[w]
    IN  /\ me.pc = "checked"
        /\ \E o \in store_outputs(me.request, spider, me.result.items, calls) :
             /\ calls' = o.calls
             /\ store' = o.store
             /\ writers' = [writers EXCEPT ![w] =
                              [me EXCEPT !.pc = IF o.escaped = "none" THEN "done" ELSE "failed",
                                         !.posted_at = IF Len(o.calls) > Len(calls)
                                                       THEN Len(o.calls) ELSE 0,
                                         !.returned = o.returned,
                                         !.escaped = o.escaped]]
        /\ UNCHANGED <<spider, mk_ttl, phase, request, original, result,
                       returned, escaped, executed, substitutions, derived, client>>

NextRace == \E w \in Writers : WriterCheck(w) \/ WriterStore(w)

SpecRace == InitRace /\ [][NextRace]_vars

-----------------------------------------------------------------------------
(* Vocabulary of the properties *)

\* the calls of one kind a handler made to the store, in order
CallsOf(by, op) == SelectSeq(calls, LAMBDA c : c.by = by /\ c.op = op)

\* the store answered the call with this status
Answered(c, status) == ~c.failed /\ c.status_code = status

\* the client raised MokeskinAPIError on the call
StoreErrorOn(c) ==
    /\ ~c.failed
    /\ c.status_code \notin (IF c.op = "post" THEN {201} ELSE {200, 404})

\* process_spider_output has run in this dispatch
WritePathRan == phase \in {"done", "output_failed"}

\* the request is a placeholder
IsPlaceholder(req) == req.callback = Some(ReplayHandler)

\* caching is enabled for the request, as the specification states it
EnabledFor(req, sp) ==
    \/ /\ "cache_object_enabled" \in DOMAIN req.meta
       /\ req.meta["cache_object_enabled"] = TRUE
    \/ /\ "cache_object_enabled" \notin DOMAIN req.meta
       /\ "cache_object_enabled" \in DOMAIN sp.attrs
       /\ sp.attrs["cache_object_enabled"].ret = TRUE

-----------------------------------------------------------------------------
(* C1 *)

\* C1: write-once. Whenever the existence check of process_spider_output
\* was answered 200 (the key exists), that run of the Write Path made no post
\* call and returned the callback's outputs, all of them and in order.
C1_WriteOnce ==
    \A i \in DOMAIN calls :
        (/\ calls[i].by = "process_spider_output"
         /\ calls[i].op = "exists"
         /\ Answered(calls[i], 200))
        => /\ CallsOf("process_spider_output", "post") = <<>>
           /\ returned = Some(result.items)
           /\ escaped = "none"
           /\ phase = "done"

\* C1 witness: an enabled request whose callback yielded outputs, an
\* existence check answered 200, and the Write Path done.
C1_Witness ==
    /\ phase = "done"
    /\ result.items # <<>>
    /\ \E i \in DOMAIN calls :
         /\ calls[i].by = "process_spider_output"
         /\ calls[i].op = "exists"
         /\ Answered(calls[i], 200)

-----------------------------------------------------------------------------
(* C2 *)

\* C2: fail-open. A store call on which the client raised MokeskinAPIError
\* leaves the dispatch as it is without caching: after a failed existence
\* check of process_request the request is not replaced; after a failed
\* existence check of process_spider_output nothing is posted and the
\* outputs are returned; after a failed post the outputs are returned; after
\* a failed get the replay handler ends without an exception.  (Dispatches
\* in which every store call got an HTTP response.)
C2_FailOpen ==
    \A i \in DOMAIN calls :
        (StoreErrorOn(calls[i]) /\ \A j \in DOMAIN calls : ~calls[j].failed) =>
            /\ (calls[i].by = "process_request" /\ i = Len(calls)
                    /\ phase \in {"download", "request_failed"})
                 => /\ phase = "download"
                    /\ request.val = calls[i].task
            /\ (calls[i].by = "process_spider_output" /\ calls[i].op = "exists")
                 => CallsOf("process_spider_output", "post") = <<>>
            /\ (calls[i].by = "process_spider_output" /\ calls[i].op = "post")
                 => /\ returned = Some(result.items)
                    /\ escaped = "none"
            /\ calls[i].by = "replay"
                 => result.exc = "none"

-----------------------------------------------------------------------------
(* C3 *)

\* the encoding the specification gives a batch of records
RecordPayload(objs) ==
    [i \in DOMAIN objs |-> [_type |-> "item", _data |-> objs[i].fields]]

\* C3: scenario A. (write) When the Write Path has run for an executed
\* request with caching enabled whose callback yielded the one record
\* {"title": "x"}, the key was absent and the store answered every call, the
\* batch was posted under the request's key. (hit and replay) When the
\* replay handler has fetched such an entry, it yields exactly that record.
C3_ScenarioA ==
    /\ (/\ WritePathRan
        /\ executed
        /\ EnabledFor(request.val, spider)
        /\ result = [items |-> <<ItemA>>, exc |-> "none"]
        /\ \A i \in DOMAIN calls : ~calls[i].failed /\ ~StoreErrorOn(calls[i])
        /\ \E i \in DOMAIN calls :
             /\ calls[i].by = "process_spider_output"
             /\ calls[i].op = "exists"
             /\ Answered(calls[i], 404))
       => /\ escaped = "none"
          /\ \E j \in DOMAIN calls :
               /\ calls[j].by = "process_spider_output"
               /\ calls[j].op = "post"
               /\ Answered(calls[j], 201)
               /\ calls[j].json.val["data"] = RecordPayload(<<ItemA>>)
    /\ (/\ phase = "spider_output"
        /\ IsPlaceholder(request.val)
        /\ Answered(calls[Len(calls)], 200)
        /\ calls[Len(calls)].json.val["data"]["data"] = RecordPayload(<<ItemA>>))
       => /\ result.exc = "none"
          /\ Len(result.items) = 1
          /\ result.items[1].fields = ItemA.fields

-----------------------------------------------------------------------------
(* C4 *)

\* the object the specification has an encoded element decode to
DecodedAs(obj, mk_obj) ==
    IF mk_obj["_type"] = "request"
    THEN /\ obj.cls = "Request"
         /\ \A f \in {"url", "method", "body", "headers", "meta", "dont_filter", "cookies"} :
              obj[f] = mk_obj["_data"][f]
         /\ \A f \in {"callback", "errback"} :
              obj[f] = IF /\ f \in DOMAIN mk_obj["_data"]
                          /\ mk_obj["_data"][f] \in DOMAIN spider.attrs
                          /\ spider.attrs[mk_obj["_data"][f]].callable
                       THEN Some(mk_obj["_data"][f])
                       ELSE None
    ELSE /\ obj.cls \in {"Item", "dict"}
         /\ obj.fields = mk_obj["_data"]

\* C4: codec round trip. When the replay handler has fetched an entry the
\* Write Path encoded and posted, it ends without an exception and yields as
\* many objects as the entry has elements, in the stored order, each of the
\* kind and with the fields of the element it decodes.
C4_RoundTrip ==
    (/\ phase = "spider_output"
     /\ IsPlaceholder(request.val)
     /\ Answered(calls[Len(calls)], 200))
    => LET data == calls[Len(calls)].json.val["data"]["data"]
       IN  /\ result.exc = "none"
           /\ Len(result.items) = Len(data)
           /\ \A i \in DOMAIN data : DecodedAs(result.items[i], data[i])

-----------------------------------------------------------------------------
(* C5 *)

\* C5: scenario C. When the replay handler's get was answered 404 (the
\* entry vanished after the existence check), or failed, the handler yields
\* an empty output sequence and raises nothing.
C5_ExpiryRace ==
    (/\ phase = "spider_output"
     /\ IsPlaceholder(request.val)
     /\ \/ Answered(calls[Len(calls)], 404)
        \/ StoreErrorOn(calls[Len(calls)]))
    => result = [items |-> <<>>, exc |-> "none"]

-----------------------------------------------------------------------------
(* C6 *)

\* C6: the Write Path returns its input. Whenever process_spider_output has
\* run on an output stream (one that itself raised nothing) and every store
\* call it made got an HTTP response, it returned the stream's objects, all
\* of them and in order, and raised nothing.
C6_OutputsUnchanged ==
    (/\ WritePathRan
     /\ result.exc = "none"
     /\ \A i \in DOMAIN calls :
          calls[i].by = "process_spider_output" => ~calls[i].failed)
    => /\ returned = Some(result.items)
       /\ escaped = "none"

-----------------------------------------------------------------------------
(* C7 *)

\* C7: scenario D and enable resolution. check_if_is_enabled is true
\* exactly when the request's flag is set and true, or is not set while the
\* spider's flag is true. Every store call of process_request and of
\* process_spider_output was made for a request with caching enabled; a
\* dispatched request with caching disabled is never replaced and no store
\* call at all is made in its dispatch; and for a dispatched request with
\* caching enabled process_request does call the store.
C7_EnableResolution ==
    /\ request.some =>
         (check_if_is_enabled(request.val, spider) <=> EnabledFor(request.val, spider))
    /\ \A i \in DOMAIN calls :
         calls[i].by \in {"process_request", "process_spider_output"}
            => EnabledFor(calls[i].task, spider)
    /\ (original.some /\ ~EnabledFor(original.val, spider))
         => /\ calls = <<>>
            /\ request = original
    /\ (original.some /\ EnabledFor(original.val, spider)
          /\ phase \notin {"idle", "process_request"})
         => /\ calls # <<>>
            /\ calls[1].by = "process_request"
            /\ calls[1].task = original.val

\* C7 witness: the spider's flag is true, the request's flag is set and
\* false; the request was executed, its outputs went through the Write Path,
\* and no store call was made.
C7_Witness ==
    /\ phase = "done"
    /\ executed
    /\ result.items # <<>>
    /\ returned = Some(result.items)
    /\ "cache_object_enabled" \in DOMAIN spider.attrs
    /\ spider.attrs["cache_object_enabled"].ret = TRUE
    /\ "cache_object_enabled" \in DOMAIN request.val.meta
    /\ request.val.meta["cache_object_enabled"] = FALSE
    /\ calls = <<>>

-----------------------------------------------------------------------------
(* C8 *)

\* C8: scenario B. (write) When the existence check of process_spider_output
\* was answered 404 and every store call got an HTTP response, the Write
\* Path made exactly one post, under the key it checked, carrying one
\* element for each Request, dict and Item of the output stream. (read) When
\* the existence check of process_request was answered 404 the request is
\* not replaced and goes on to be downloaded.
C8_ScenarioB ==
    /\ \A i \in DOMAIN calls :
         (/\ calls[i].by = "process_spider_output"
          /\ calls[i].op = "exists"
          /\ Answered(calls[i], 404)
          /\ \A j \in DOMAIN calls : ~calls[j].failed)
         => LET posts == CallsOf("process_spider_output", "post")
            IN  /\ Len(posts) = 1
                /\ posts[1].key = calls[i].key
                /\ Len(posts[1].json.val["data"]) =
                     Cardinality({ k \in DOMAIN result.items :
                                     result.items[k].cls \in {"Request", "dict", "Item"} })
    /\ (/\ calls # <<>>
        /\ calls[Len(calls)].by = "process_request"
        /\ Answered(calls[Len(calls)], 404))
       => /\ request.val = calls[Len(calls)].task
          /\ phase \in {"download", "spider_output"}
          /\ (phase = "spider_output" /\ ~IsPlaceholder(request.val)) => executed

-----------------------------------------------------------------------------
(* C9 and C10 *)

\* the key-override hooks the spider has as callables
CallableHooks(sp) ==
    { h \in {"httpcache_get_request_key", "get_request_key"} :
        h \in DOMAIN sp.attrs /\ sp.attrs[h].callable }

\* the key with hook h deciding the identity: its return value unless that
\* is None, the fingerprint then
KeyVia(sp, req, h) ==
    Md5Hex(sp.name) \o ":" \o
        (IF sp.attrs[h].ret.some THEN sp.attrs[h].ret.val ELSE request_fingerprint(req))

\* C9: key derivation. The derived key is "{md5(spider.name)}:{identity}":
\* the identity is the request's fingerprint when the spider has no callable
\* hook, and otherwise the return value of a callable hook of the spider when
\* that is not None (the empty string included), the fingerprint when it is
\* None.
C9_KeyDerivation ==
    derived.some =>
        IF CallableHooks(spider) = {}
        THEN derived.val = Md5Hex(spider.name) \o ":" \o request_fingerprint(request.val)
        ELSE \E h \in CallableHooks(spider) : derived.val = KeyVia(spider, request.val, h)

\* C9 witness: a key derived for a spider whose only hook returns the empty
\* string, which is the identity.
C9_Witness ==
    /\ derived.some
    /\ CallableHooks(spider) = {"get_request_key"}
    /\ spider.attrs["get_request_key"].ret = Some("")
    /\ derived.val = Md5Hex(spider.name) \o ":"

\* C10 as stated: with both hooks callable, the legacy-named hook decides:
\* its return value, when not None, is the identity.
C10_LegacyHookWins ==
    (/\ derived.some
     /\ CallableHooks(spider) = {"httpcache_get_request_key", "get_request_key"}
     /\ spider.attrs["httpcache_get_request_key"].ret.some)
    => derived.val = KeyVia(spider, request.val, "httpcache_get_request_key")

\* C10 amended: the hooks are probed legacy-named first, current-named
\* second, and the last callable one found is the one called. With
\* get_request_key callable it decides the identity, whatever
\* httpcache_get_request_key is or returns; httpcache_get_request_key
\* decides only when get_request_key is missing or not callable.
C10_CurrentHookWins ==
    (derived.some /\ CallableHooks(spider) # {}) =>
        derived.val = KeyVia(spider, request.val,
                             IF "get_request_key" \in CallableHooks(spider)
                             THEN "get_request_key"
                             ELSE "httpcache_get_request_key")

\* C10 witness: both hooks callable and returning different keys; the
\* derived key carries the one of get_request_key.
C10_Witness ==
    /\ derived.some
    /\ CallableHooks(spider) = {"httpcache_get_request_key", "get_request_key"}
    /\ spider.attrs["httpcache_get_request_key"].ret = Some("legacy-key")
    /\ spider.attrs["get_request_key"].ret = Some("current-key")
    /\ derived.val = Md5Hex(spider.name) \o ":current-key"

-----------------------------------------------------------------------------
(* C11 *)

\* C11: status mapping of the store client. On an HTTP answer, exists
\* returns False on 404, True on 200 and raises MokeskinAPIError on every
\* other status; get returns None on 404, the payload under data.data on 200
\* and raises MokeskinAPIError on every other status; post returns on 201
\* and raises MokeskinAPIError on every other status, 200 included.
C11_StatusMapping ==
    (client.done /\ ~client.resp.failed) =>
        LET st == client.resp.status_code
            StoreError == [raised |-> "MokeskinAPIError", value |-> None]
        IN  /\ client.op = "exists" =>
                 client.out = IF st = 404 THEN [raised |-> "none", value |-> Some(FALSE)]
                              ELSE IF st = 200 THEN [raised |-> "none", value |-> Some(TRUE)]
                              ELSE StoreError
            /\ client.op = "get" =>
                 client.out = IF st = 404 THEN [raised |-> "none", value |-> None]
                              ELSE IF st = 200
                              THEN [raised |-> "none",
                                    value |-> Some(client.resp.json.val["data"]["data"])]
                              ELSE StoreError
            /\ client.op = "post" =>
                 client.out = IF st = 201 THEN [raised |-> "none", value |-> None]
                              ELSE StoreError

\* C11 witness: a post answered 200 has raised MokeskinAPIError.
C11_Witness ==
    /\ client.done
    /\ client.op = "post"
    /\ ~client.resp.failed
    /\ client.resp.status_code = 200
    /\ client.out.raised = "MokeskinAPIError"

-----------------------------------------------------------------------------
(* C12 *)

\* C12: Write Path with a failed existence check. When the client raised
\* MokeskinAPIError on the existence check of process_spider_output, that
\* run of the Write Path made no post call at all and still returned the
\* callback's outputs, all of them and in order.  (Dispatches in which every
\* store call got an HTTP response and the callback yielded requests only,
\* so that nothing but the failed check is at play.)
C12_SkipOnFailedExists ==
    \A i \in DOMAIN calls :
        (/\ WritePathRan
         /\ calls[i].by = "process_spider_output"
         /\ calls[i].op = "exists"
         /\ StoreErrorOn(calls[i])
         /\ \A j \in DOMAIN calls : ~calls[j].failed
         /\ \A k \in DOMAIN result.items : result.items[k].cls = "Request")
        => /\ \A j \in DOMAIN calls :
                ~(calls[j].by = "process_spider_output" /\ calls[j].op = "post")
           /\ returned = Some(result.items)
           /\ escaped = "none"

-----------------------------------------------------------------------------
(* C13 *)

\* the existence checks of process_request answered 200 in this dispatch
Hits ==
    SelectSeq(calls, LAMBDA c : /\ c.by = "process_request"
                                /\ c.op = "exists"
                                /\ Answered(c, 200))

\* C13: Read Path HIT. Once an existence check of process_request was
\* answered 200 for an enabled request, the request in flight is the
\* placeholder built on that check: it bypasses the duplicate filter, its
\* meta holds exactly mk_key, the key that was checked, and keep_session,
\* and its callback is the replay handler; the replay handler's get is made
\* with that same key; and the spider's callback never runs for the request
\* that was dispatched.
C13_HitSubstitutes ==
    Hits # <<>> =>
        LET hit == Hits[Len(Hits)]
        IN  /\ check_if_is_enabled(hit.task, spider)
            /\ request.val.cls = "Request"
            /\ request.val.dont_filter = TRUE
            /\ DOMAIN request.val.meta = {"mk_key", "keep_session"}
            /\ request.val.meta["mk_key"] = hit.key
            /\ request.val.meta["keep_session"] = TRUE
            /\ request.val.callback = Some(ReplayHandler)
            /\ \A i \in DOMAIN calls :
                 calls[i].by = "replay" => /\ calls[i].op = "get"
                                           /\ calls[i].key = hit.key
            /\ ~executed

\* C13 witness: a request of the spider was dispatched, its existence check
\* was answered 200, and the replay handler has fetched the entry.
C13_Witness ==
    /\ Hits # <<>>
    /\ Hits[1].task = original.val
    /\ ~IsPlaceholder(original.val)
    /\ phase = "spider_output"
    /\ \E i \in DOMAIN calls : calls[i].by = "replay" /\ Answered(calls[i], 200)

-----------------------------------------------------------------------------
(* C14 *)

\* the first of these optional values that is set
FirstSet(options) ==
    IF \E i \in DOMAIN options : options[i].some
    THEN options[CHOOSE i \in DOMAIN options :
                   options[i].some /\ \A j \in 1..(i - 1) : ~options[j].some]
    ELSE None

\* the body of the post carries exp, the TTL as an integer, when a TTL is
\* resolved, and no exp when none is
ExpIs(full_data, ttl) ==
    IF ttl.some
    THEN "exp" \in DOMAIN full_data /\ full_data["exp"] = PyInt(ttl.val.n)
    ELSE "exp" \notin DOMAIN full_data

\* the posts the Write Path made
Posts == CallsOf("process_spider_output", "post")

\* the TTL each tier holds for the task of a post
TaskTtl(c) == DictGet(c.task.meta, "MOKESKIN_TTL")

OwnerTtl ==
    IF "MOKESKIN_TTL" \in DOMAIN spider.attrs
    THEN Some(spider.attrs["MOKESKIN_TTL"].ret)
    ELSE None

\* C14, as stated: the TTL sent with a post is MOKESKIN_TTL of the request's
\* meta if set, else MOKESKIN_TTL of the spider if set, else the client
\* default if set, else none; exp of the posted body is that TTL and is
\* left out exactly when there is none.
C14_TtlTaskOwnerClient ==
    \A i \in DOMAIN Posts :
        ExpIs(Posts[i].json.val, FirstSet(<<TaskTtl(Posts[i]), OwnerTtl, mk_ttl>>))

\* C14, amended: the TTL sent with a post is MOKESKIN_TTL of the request's
\* meta if set, else the client default if set, else none, whatever the
\* spider carries; exp of the posted body is that TTL as an integer and is
\* left out exactly when there is none.
C14_TtlTaskClient ==
    \A i \in DOMAIN Posts :
        ExpIs(Posts[i].json.val, FirstSet(<<TaskTtl(Posts[i]), mk_ttl>>))

\* C14 witness: a post for a request without a TTL of its own, by a spider
\* that carries MOKESKIN_TTL, went out with the client default for exp.
C14_Witness ==
    /\ phase = "done"
    /\ Posts # <<>>
    /\ ~TaskTtl(Posts[1]).some
    /\ OwnerTtl.some
    /\ mk_ttl.some
    /\ OwnerTtl.val.n # mk_ttl.val.n
    /\ Posts[1].json.val["exp"] = PyInt(mk_ttl.val.n)

-----------------------------------------------------------------------------
(* C15 *)

\* the tag the specification gives an output: 'request' for a Request,
\* 'item' for a dict or an Item, none for anything else
TagOf(obj) ==
    IF obj.cls = "Request" THEN Some("request")
    ELSE IF obj.cls \in {"dict", "Item"} THEN Some("item")
    ELSE None

\* the tags of a batch, those of the skipped outputs left out
RECURSIVE TagsOf(_)
TagsOf(objs) ==
    IF objs = <<>> THEN <<>>
    ELSE IF TagOf(Head(objs)).some
    THEN <<TagOf(Head(objs)).val>> \o TagsOf(Tail(objs))
    ELSE TagsOf(Tail(objs))

\* C15: encoding by kind. When the Write Path found the key absent and the
\* store answered every call, it raised nothing, whatever the outputs were,
\* and posted one batch holding an element for each Request (tagged
\* 'request') and each dict or Item (tagged 'item') of the outputs, in their
\* order, and nothing for an output of another kind.
C15_EncodingByKind ==
    (/\ WritePathRan
     /\ \A i \in DOMAIN calls : ~calls[i].failed /\ ~StoreErrorOn(calls[i])
     /\ \E i \in DOMAIN calls :
          /\ calls[i].by = "process_spider_output"
          /\ calls[i].op = "exists"
          /\ Answered(calls[i], 404))
    => /\ escaped = "none"
       /\ Len(Posts) = 1
       /\ LET data == Posts[1].json.val["data"]
          IN  [i \in DOMAIN data |-> data[i]["_type"]] = TagsOf(result.items)

-----------------------------------------------------------------------------
(* C16 *)

\* the run's post was answered 201
Posted(w) ==
    /\ writers[w].posted_at > 0
    /\ Answered(calls[writers[w].posted_at], 201)

\* the run's existence check was answered 404
FoundAbsent(w) ==
    /\ writers[w].checked_at > 0
    /\ Answered(calls[writers[w].checked_at], 404)

\* C16: the race between check and post. Two runs of the Write Path for
\* one key, with every store call answered by the store, both get their
\* post answered 201 only by interleaving: each run's existence check was
\* answered 404 and came before the other run's post.  (The state in which
\* both have posted is the witness.)
C16_DuplicateOnlyByRace ==
    \A v \in Writers : \A w \in Writers \ {v} :
        (/\ Posted(v)
         /\ Posted(w)
         /\ calls[writers[v].posted_at].key = calls[writers[w].posted_at].key
         /\ \A i \in DOMAIN calls : ~calls[i].failed /\ ~StoreErrorOn(calls[i]))
        => /\ FoundAbsent(v)
           /\ FoundAbsent(w)
           /\ writers[v].checked_at < writers[w].posted_at
           /\ writers[w].checked_at < writers[v].posted_at

\* C16 witness: both runs found the key absent, and then both posted a
\* batch under that one key and got 201.
C16_Witness ==
    /\ FoundAbsent("a")
    /\ FoundAbsent("b")
    /\ Posted("a")
    /\ Posted("b")
    /\ calls[writers["a"].posted_at].key = calls[writers["b"].posted_at].key
    /\ writers["a"].pc = "done"
    /\ writers["b"].pc = "done"
    /\ Len(SelectSeq(calls, LAMBDA c : c.op = "post")) = 2

-----------------------------------------------------------------------------
(* C17 *)

\* C17: transport failures are caught. When a call of the client got no HTTP
\* response (the transport failed or timed out), the middleware that made
\* the call caught the error: no transport error leaves process_request,
\* the replay handler or process_spider_output.
C17_TransportFailuresCaught ==
    \A i \in DOMAIN calls :
        calls[i].failed => /\ escaped # "ConnectionError"
                           /\ result.exc # "ConnectionError"

-----------------------------------------------------------------------------
(* C18 *)

\* C18: a placeholder is never replaced. process_request returns no request
\* for a placeholder, whatever the spider's flag, its hooks and the store
\* hold: no existence check answered 200 was made for a placeholder, and in
\* one dispatch at most one request was substituted.
C18_PlaceholderNotIntercepted ==
    /\ \A i \in DOMAIN Hits : ~IsPlaceholder(Hits[i].task)
    /\ substitutions <= 1

-----------------------------------------------------------------------------
(* C19 *)

\* C19: replaying a hit writes nothing. When the outputs of the replay
\* handler pass through process_spider_output, the response's request being
\* the placeholder, no post is made.  (Dispatches in which the store answered
\* every call.)
C19_ReplayWritesNothing ==
    (\A j \in DOMAIN calls : ~calls[j].failed /\ ~StoreErrorOn(calls[j]))
    => \A i \in DOMAIN Posts : ~IsPlaceholder(Posts[i].task)

-----------------------------------------------------------------------------
(* C20 *)

\* the store calls the run of process_spider_output that has just ended made
WritePathCalls(log) == SelectSeq(log, LAMBDA c : c.by = "process_spider_output")

\* C20: at most one post per key. Runs of the Write Path come one after
\* another. A run in which the store answered every call makes a post only
\* for a key the store does not hold, makes one post only, and leaves the
\* key held; and a key the store holds stays held until the store itself
\* drops it on expiry. So for as long as an entry does not expire, no second
\* post is made for its key, whatever the callbacks yield, the empty stream
\* included.
C20_AtMostOnePost ==
    [][ /\ (phase = "spider_output" /\ phase' # "spider_output") =>
             LET made == WritePathCalls(calls')
                 posts == SelectSeq(made, LAMBDA c : c.op = "post")
             IN  (/\ posts # <<>>
                  /\ \A i \in DOMAIN made : ~made[i].failed /\ ~StoreErrorOn(made[i]))
                 => /\ Len(posts) = 1
                    /\ posts[1].key \notin DOMAIN store
                    /\ posts[1].key \in DOMAIN store'
        /\ (\E k \in DOMAIN store : k \notin DOMAIN store')
             => (phase' = phase /\ calls' = calls)
      ]_vars

\* C20 witness: a later run for a key whose entry, an empty batch, an
\* earlier run posted: the callback yielded a request this time, the
\* existence check was answered 200, and no post was made.
C20_Witness ==
    /\ phase = "done"
    /\ executed
    /\ result.items = <<ReqA>>
    /\ Posts = <<>>
    /\ \E i \in DOMAIN calls :
         /\ calls[i].by = "process_spider_output"
         /\ calls[i].op = "exists"
         /\ Answered(calls[i], 200)
         /\ calls[i].key \in DOMAIN store
         /\ store[calls[i].key].data = <<>>

=============================================================================
